---- MODULE Spec2Model ----
(***************************************************************************)
(* Meme generator: the three App components of the repository and their    *)
(* caption fitting (wrapText inside drawMeme).                             *)
(*                                                                         *)
(*   "App"  : src/App.tsx            (forced character splitting, no        *)
(*                                    font-size search)                    *)
(*   "Calc" : src/unnamed/part_000, first App  (calculateLines, floor 8)   *)
(*   "Fit"  : src/unnamed/part_000, second App (findBestFit, floor 6)      *)
(*                                                                         *)
(* Lengths are integers in units of 1/4000 px, so that every product with  *)
(* 0.15, 0.12, 0.97, 1.15, a slider value in hundredths and every halving  *)
(* the code makes is exact. JavaScript's floating point rounding is not    *)
(* modelled. A string is a sequence of one-character strings.              *)
(***************************************************************************)
EXTENDS Integers, Sequences, FiniteSets, TLC

\* ------------------------------------------------------------------ bounds

\* Longest caption typed in the single-caption specification SpecTop.
MaxTopLen == 9
\* Largest total length of the two captions in the specification Spec.
MaxLen == 4
\* Cap on the passes of one font-size search; reaching it is reported as hung.
MaxPasses == 16

\* ------------------------------------------------------------------- units

Px(n) == n * 4000

\* x * (p / 100), exact for the values the model uses.
Pct(x, p) == (x * p) \div 100

\* x * (p / 1000), rounded down: Math.floor(canvas.height * 0.065)
FloorMilli(x, p) == (x * p) \div 1000

\* ----------------------------------------------------------------- strings

\* The keys the user types: a lowercase letter and a blank.
Chars == {"a", " "}

IsSpace(c) == c = " "

UpperChar(c) == IF c = "a" THEN "A" ELSE c

toUpperCase(s) == [i \in 1..Len(s) |-> UpperChar(s[i])]

RECURSIVE trimStart(_)
trimStart(s) ==
  IF s # <<>> /\ IsSpace(Head(s)) THEN trimStart(Tail(s)) ELSE s

RECURSIVE trimEnd(_)
trimEnd(s) ==
  IF s # <<>> /\ IsSpace(s[Len(s)]) THEN trimEnd(SubSeq(s, 1, Len(s) - 1)) ELSE s

trim(s) == trimEnd(trimStart(s))

\* String.prototype.split(/\s+/): the pieces between maximal runs of blanks;
\* a leading or trailing run yields an empty piece, and "" yields [""].
RECURSIVE splitFrom(_, _, _)
splitFrom(s, cur, acc) ==
  IF s = <<>> THEN Append(acc, cur)
  ELSE LET sep == IsSpace(Head(s))
       IN splitFrom(IF sep THEN trimStart(s) ELSE Tail(s),
                    IF sep THEN <<>> ELSE Append(cur, Head(s)),
                    IF sep THEN Append(acc, cur) ELSE acc)

\* Mutant of split: split(' '), every single blank separates.
RECURSIVE splitEachBlank(_)
splitEachBlank(s) ==
  IF \A k \in DOMAIN s : ~IsSpace(s[k]) THEN <<s>>
  ELSE LET k == CHOOSE j \in DOMAIN s :
                  IsSpace(s[j]) /\ \A h \in 1..(j - 1) : ~IsSpace(s[h])
       IN <<SubSeq(s, 1, k - 1)>> \o splitEachBlank(SubSeq(s, k + 1, Len(s)))

split(s) == splitFrom(s, <<>>, <<>>)

\* a + ' ' + b
JoinSp(a, b) == a \o <<" ">> \o b

\* Array.prototype.join(' ')
RECURSIVE join(_)
join(ls) ==
  IF ls = <<>> THEN <<>>
  ELSE IF Len(ls) = 1 THEN ls[1]
  ELSE JoinSp(ls[1], join(Tail(ls)))

RECURSIVE concat(_)
concat(ls) == IF ls = <<>> THEN <<>> ELSE ls[1] \o concat(Tail(ls))

\* ----------------------------------------------------- the drawing context

\* Advance width of a character in tenths of an em (Inter 800, uppercase).
Advance(c) == IF IsSpace(c) THEN 3 ELSE 7

RECURSIVE AdvanceSum(_)
AdvanceSum(s) == IF s = <<>> THEN 0 ELSE Advance(Head(s)) + AdvanceSum(Tail(s))

\* context.font after `800 ${size}px Inter, ...`
Font(size, stack) == [size |-> size, stack |-> stack]

\* The state of a 2D context after canvas.width is assigned (the context is
\* reset): font 10px sans-serif, align start, baseline alphabetic, no clip (clip
\* is the list of rectangles whose intersection is the clipping region), and
\* an empty stack of saved drawing states.
DefaultCtx ==
  [font |-> Font(Px(10), "default"), textAlign |-> "start",
   textBaseline |-> "alphabetic", fillStyle |-> "default", clip |-> <<>>,
   saved |-> <<>>]

\* context.measureText(s).width under the font pinned on the context.
measureText(context, s) == (context.font.size * AdvanceSum(s)) \div 10

\* Mutant of pinFont: the assignment to context.font has no effect.
pinFontIgnored(context, font) == context

\* context.font = ...
pinFont(context, font) == [context EXCEPT !.font = font]

\* One context.fillText(line, x, y) with the context state it is painted under.
FillText(context, line, x, y) ==
  [text |-> line, x |-> x, y |-> y, font |-> context.font,
   textAlign |-> context.textAlign, textBaseline |-> context.textBaseline,
   fillStyle |-> context.fillStyle, clip |-> context.clip]

\* context.save(): the drawing state is pushed on the context's stack
save(context) ==
  [context EXCEPT !.saved =
     Append(@, [font |-> context.font, textAlign |-> context.textAlign,
                textBaseline |-> context.textBaseline,
                fillStyle |-> context.fillStyle, clip |-> context.clip])]

\* context.save(); context.beginPath(); context.rect(x, y, w, h); context.clip():
\* the clipping region is intersected with the rectangle
saveAndClip(context, x, y, w, h) ==
  [save(context) EXCEPT !.clip = Append(@, <<x, y, w, h>>)]

\* Mutant of restore: the saved state is not reinstated.
restoreSkipped(context) == context

\* context.restore(): the last saved drawing state is popped and reinstated
restore(context) ==
  IF context.saved = <<>> THEN context
  ELSE LET state == context.saved[Len(context.saved)]
       IN [font |-> state.font, textAlign |-> state.textAlign,
           textBaseline |-> state.textBaseline, fillStyle |-> state.fillStyle,
           clip |-> state.clip,
           saved |-> SubSeq(context.saved, 1, Len(context.saved) - 1)]

\* Mutant of fillLines: every line is painted at startY.
fillLinesSameY(context, lines, centerX, startY, lineHeight) ==
  [i \in 1..Len(lines) |-> FillText(context, lines[i], centerX, startY)]

\* lines.forEach((line, index) => context.fillText(line, centerX, startY + index * lineHeight))
fillLines(context, lines, centerX, startY, lineHeight) ==
  [i \in 1..Len(lines) |->
     FillText(context, lines[i], centerX, startY + (i - 1) * lineHeight)]

\* What one wrapText call did: its arguments, the context it found and left,
\* the layout it computed and the fillText calls it made.
CallRecord(rawText, centerX, centerY, boxWidth, boxHeight, fSize, ctxIn, ctxOut, maxWidth, maxHeight, fontSize, lines, lineHeight, totalHeight, fills, passes, hung) ==
  [rawText |-> rawText, centerX |-> centerX, centerY |-> centerY,
   boxWidth |-> boxWidth, boxHeight |-> boxHeight, fSize |-> fSize,
   ctxIn |-> ctxIn, ctxOut |-> ctxOut, maxWidth |-> maxWidth,
   maxHeight |-> maxHeight, fontSize |-> fontSize, lines |-> lines,
   lineHeight |-> lineHeight, totalHeight |-> totalHeight, fills |-> fills,
   passes |-> passes, hung |-> hung]

\* Mutant of NoOpCall: the font is pinned before the empty-text return.
NoOpCallPinsFont(rawText, centerX, centerY, boxWidth, boxHeight, fSize, context) ==
  CallRecord(rawText, centerX, centerY, boxWidth, boxHeight, fSize, context,
             pinFont(context, Font(fSize, "ArialBlack")), 0, 0, fSize, <<>>, 0,
             0, <<>>, 0, FALSE)

\* The early return of wrapText: nothing measured, nothing painted.
NoOpCall(rawText, centerX, centerY, boxWidth, boxHeight, fSize, context) ==
  CallRecord(rawText, centerX, centerY, boxWidth, boxHeight, fSize, context,
             context, 0, 0, fSize, <<>>, 0, 0, <<>>, 0, FALSE)

\* ------------------------------------------------- src/App.tsx: wrapText

\* Mutant of splitChars: the character that overflows is dropped.
RECURSIVE splitCharsDropsOverflow(_, _, _, _, _)
splitCharsDropsOverflow(context, targetMaxWidth, chars, charLine, lines) ==
  IF chars = <<>> THEN [lines |-> lines, charLine |-> charLine]
  ELSE LET char == Head(chars)
           testCharLine == Append(charLine, char)
           over == measureText(context, testCharLine) > targetMaxWidth
       IN splitCharsDropsOverflow(context, targetMaxWidth, Tail(chars),
                                  IF over THEN <<>> ELSE testCharLine,
                                  IF over /\ charLine # <<>>
                                  THEN Append(lines, charLine) ELSE lines)

\* pushLineWithWordSplit: greedy character splitting of one word; closed
\* sub-lines are pushed to lines, the remainder is returned.
RECURSIVE splitChars(_, _, _, _, _)
splitChars(context, targetMaxWidth, chars, charLine, lines) ==
  IF chars = <<>> THEN [lines |-> lines, charLine |-> charLine]
  ELSE LET char == Head(chars)
           testCharLine == Append(charLine, char)
           over == measureText(context, testCharLine) > targetMaxWidth
       IN splitChars(context, targetMaxWidth, Tail(chars),
                     IF over THEN <<char>> ELSE testCharLine,
                     IF over /\ charLine # <<>> THEN Append(lines, charLine)
                     ELSE lines)

pushLineWithWordSplit(context, targetMaxWidth, wordToSplit, lines) ==
  splitChars(context, targetMaxWidth, wordToSplit, <<>>, lines)

\* for (const word of words) { ... } of src/App.tsx
RECURSIVE wrapWords(_, _, _, _, _)
wrapWords(context, targetMaxWidth, words, currentLine, lines) ==
  IF words = <<>> THEN [lines |-> lines, currentLine |-> currentLine]
  ELSE LET word == Head(words)
           testLine == IF currentLine # <<>> THEN JoinSp(currentLine, word) ELSE word
           \* the loop body: the new {lines, currentLine} (charLine)
           body ==
             IF measureText(context, testLine) > targetMaxWidth
             THEN IF currentLine # <<>>
                  THEN IF measureText(context, word) > targetMaxWidth
                       THEN pushLineWithWordSplit(context, targetMaxWidth, word,
                                                  Append(lines, currentLine))
                       ELSE [lines |-> Append(lines, currentLine), charLine |-> word]
                  ELSE pushLineWithWordSplit(context, targetMaxWidth, word, lines)
             ELSE [lines |-> lines, charLine |-> testLine]
       IN wrapWords(context, targetMaxWidth, Tail(words), body.charLine, body.lines)

\* The layout and paint part of wrapText (src/App.tsx), after the word loop
\* has left {lines, currentLine} in w and the context in c1.
paintApp(c1, w, rawText, centerX, centerY, boxWidth, boxHeight, fSize, context, targetMaxWidth) ==
  LET fontString == Font(fSize, "ArialBlack")
      lineHeight == Pct(fSize, 115)
      lines == IF w.currentLine # <<>> THEN Append(w.lines, w.currentLine)
               ELSE w.lines
      totalHeight == Len(lines) * lineHeight
      c2 == pinFont([c1 EXCEPT !.textAlign = "center", !.textBaseline = "middle",
                               !.fillStyle = "#000000"], fontString)
      startY == centerY - (totalHeight \div 2) + (lineHeight \div 2)
      c3 == saveAndClip(c2, centerX - (boxWidth \div 2) + Px(5),
                        centerY - (boxHeight \div 2) + Px(5),
                        boxWidth - Px(10), boxHeight - Px(10))
      fills == fillLines(c3, lines, centerX, startY, lineHeight)
  IN CallRecord(rawText, centerX, centerY, boxWidth, boxHeight, fSize, context,
                restore(c3), targetMaxWidth, boxHeight, fSize, lines, lineHeight,
                totalHeight, fills, 1, FALSE)

\* Mutant of wrapTextApp: the words are measured before the font is pinned.
wrapTextAppPinsLate(context, rawText, centerX, centerY, boxWidth, boxHeight, fSize) ==
  IF toUpperCase(trim(rawText)) = <<>>
  THEN NoOpCall(rawText, centerX, centerY, boxWidth, boxHeight, fSize, context)
  ELSE
    LET paddingX == Pct(boxWidth, 15)
        targetMaxWidth == Pct(boxWidth - (paddingX * 2), 97)
    IN CHOOSE call \in
         { paintApp(c1, w, rawText, centerX, centerY, boxWidth, boxHeight, fSize,
                    context, targetMaxWidth) :
             c1 \in {pinFont(context, Font(fSize, "ArialBlack"))},
             w \in { wrapWords(context, targetMaxWidth, words, <<>>, <<>>) :
                       words \in {split(toUpperCase(trim(rawText)))} } } : TRUE

\* { e : x \in {v} } binds x to the value v once; CHOOSE takes the one element.
wrapTextApp(context, rawText, centerX, centerY, boxWidth, boxHeight, fSize) ==
  IF toUpperCase(trim(rawText)) = <<>>
  THEN NoOpCall(rawText, centerX, centerY, boxWidth, boxHeight, fSize, context)
  ELSE
    LET paddingX == Pct(boxWidth, 15)
        targetMaxWidth == Pct(boxWidth - (paddingX * 2), 97)
    IN CHOOSE call \in
         { paintApp(c1, w, rawText, centerX, centerY, boxWidth, boxHeight, fSize,
                    context, targetMaxWidth) :
             c1 \in {pinFont(context, Font(fSize, "ArialBlack"))},
             w \in { wrapWords(c, targetMaxWidth, words, <<>>, <<>>) :
                       c \in {pinFont(context, Font(fSize, "ArialBlack"))},
                       words \in {split(toUpperCase(trim(rawText)))} } } : TRUE

\* ------------------------- src/unnamed/part_000, first App: wrapText

\* while (currentFontSize > 8)
MinSizeCalc == 8

\* Mutant of calcWords: the single-word check and its `return null` are
\* missing, so an over-wide word is kept as a line.
RECURSIVE calcWordsNeverNull(_, _, _, _, _)
calcWordsNeverNull(context, maxWidth, words, currentLine, currentLines) ==
  IF words = <<>>
  THEN [ok |-> TRUE,
        lines |-> IF currentLine # <<>> THEN Append(currentLines, currentLine)
                  ELSE currentLines]
  ELSE LET word == Head(words)
           testLine == currentLine \o (IF currentLine # <<>> THEN <<" ">> ELSE <<>>)
                       \o word
           over == measureText(context, testLine) > maxWidth
       IN calcWordsNeverNull(context, maxWidth, Tail(words),
                             IF ~over THEN testLine
                             ELSE IF currentLine # <<>> THEN word ELSE currentLine,
                             IF ~over THEN currentLines
                             ELSE IF currentLine # <<>>
                                  THEN Append(currentLines, currentLine)
                                  ELSE Append(currentLines, word))

\* Mutant of calcWords: every word that fits is put on a line of its own.
RECURSIVE calcWordsOneWordPerLine(_, _, _, _, _)
calcWordsOneWordPerLine(context, maxWidth, words, currentLine, currentLines) ==
  IF words = <<>> THEN [ok |-> TRUE, lines |-> currentLines]
  ELSE IF measureText(context, Head(words)) > maxWidth
  THEN [ok |-> FALSE, lines |-> currentLines]
  ELSE calcWordsOneWordPerLine(context, maxWidth, Tail(words), currentLine,
                               Append(currentLines, Head(words)))

\* for (let n = 0; n < words.length; n++) { ... } of calculateLines; ok is
\* FALSE for `return null`.
RECURSIVE calcWords(_, _, _, _, _)
calcWords(context, maxWidth, words, currentLine, currentLines) ==
  IF words = <<>>
  THEN [ok |-> TRUE,
        lines |-> IF currentLine # <<>> THEN Append(currentLines, currentLine)
                  ELSE currentLines]
  ELSE LET word == Head(words)
           testLine == currentLine \o (IF currentLine # <<>> THEN <<" ">> ELSE <<>>)
                       \o word
           over == measureText(context, testLine) > maxWidth
       IN IF over /\ measureText(context, word) > maxWidth
          THEN [ok |-> FALSE, lines |-> <<>>]
          ELSE calcWords(context, maxWidth, Tail(words),
                         IF ~over THEN testLine
                         ELSE IF currentLine # <<>> THEN word ELSE currentLine,
                         IF ~over THEN currentLines
                         ELSE IF currentLine # <<>>
                              THEN Append(currentLines, currentLine)
                              ELSE Append(currentLines, word))

\* Mutant of calculateLines: the font is pinned after the words are measured,
\* so they are measured under whatever font the context holds.
calculateLinesPinsLate(context, words, maxWidth, fSize) ==
  LET c == pinFont(context, Font(fSize, "SegoeUI"))
      lHeight == Pct(fSize, 115)
      r == calcWords(context, maxWidth, words, <<>>, <<>>)
  IN [ok |-> r.ok, lines |-> r.lines, totalHeight |-> Len(r.lines) * lHeight,
      lineHeight |-> lHeight, context |-> c]

calculateLines(context, words, maxWidth, fSize) ==
  LET c == pinFont(context, Font(fSize, "SegoeUI"))
      lHeight == Pct(fSize, 115)
      r == calcWords(c, maxWidth, words, <<>>, <<>>)
  IN [ok |-> r.ok, lines |-> r.lines, totalHeight |-> Len(r.lines) * lHeight,
      lineHeight |-> lHeight, context |-> c]

\* The shrink loop: while (currentFontSize > 8) { ...; currentFontSize -= 1 }
RECURSIVE shrinkLoop(_, _, _, _, _, _)
shrinkLoop(context, words, maxWidth, maxHeight, currentFontSize, passes) ==
  LET none == [context |-> context, currentFontSize |-> currentFontSize,
               lines |-> <<>>, totalBlockHeight |-> 0, lineHeight |-> 0,
               passes |-> passes, hung |-> FALSE]
  IN IF ~(currentFontSize > Px(MinSizeCalc)) THEN none
     ELSE IF passes >= MaxPasses THEN [none EXCEPT !.hung = TRUE]
     ELSE LET result == calculateLines(context, words, maxWidth, currentFontSize)
          IN IF result.ok /\ result.totalHeight <= maxHeight
             THEN [context |-> result.context, currentFontSize |-> currentFontSize,
                   lines |-> result.lines, totalBlockHeight |-> result.totalHeight,
                   lineHeight |-> result.lineHeight, passes |-> passes + 1,
                   hung |-> FALSE]
             ELSE shrinkLoop(result.context, words, maxWidth, maxHeight,
                             currentFontSize - Px(1), passes + 1)

\* The part of wrapText (first App) after the shrink loop has left its
\* variables in s: the empty-lines return, or the layout and paint.
paintCalc(s, rawText, centerX, centerY, boxWidth, boxHeight, initialFontSize, context, maxWidth, maxHeight) ==
  IF Len(s.lines) = 0
  THEN CallRecord(rawText, centerX, centerY, boxWidth, boxHeight,
                  initialFontSize, context, s.context, maxWidth, maxHeight,
                  s.currentFontSize, <<>>, 0, 0, <<>>, s.passes, s.hung)
  ELSE
    LET c2 == [s.context EXCEPT !.textAlign = "center", !.textBaseline = "top",
                                !.fillStyle = "#000000"]
        startY == centerY - (s.totalBlockHeight \div 2)
        c3 == saveAndClip(c2, centerX - (boxWidth \div 2),
                          centerY - (boxHeight \div 2), boxWidth, boxHeight)
        fills == fillLines(c3, s.lines, centerX, startY, s.lineHeight)
    IN CallRecord(rawText, centerX, centerY, boxWidth, boxHeight,
                  initialFontSize, context, restore(c3), maxWidth, maxHeight,
                  s.currentFontSize, s.lines, s.lineHeight,
                  s.totalBlockHeight, fills, s.passes, s.hung)

wrapTextCalc(context, rawText, centerX, centerY, boxWidth, boxHeight, initialFontSize) ==
  IF toUpperCase(trim(rawText)) = <<>>
  THEN NoOpCall(rawText, centerX, centerY, boxWidth, boxHeight, initialFontSize,
                context)
  ELSE
    LET hPadding == Pct(boxWidth, 15)
        vPadding == Pct(boxHeight, 15)
        maxWidth == boxWidth - (hPadding * 2)
        maxHeight == boxHeight - (vPadding * 2)
    IN CHOOSE call \in
         { paintCalc(s, rawText, centerX, centerY, boxWidth, boxHeight,
                     initialFontSize, context, maxWidth, maxHeight) :
             s \in { shrinkLoop(context, words, maxWidth, maxHeight,
                                initialFontSize, 0) :
                       words \in {split(toUpperCase(trim(rawText)))} } } : TRUE

\* ------------------------ src/unnamed/part_000, second App: wrapText

\* while (currentFontSize > 6)
MinSizeFit == 6

\* for (let n = 0; n < words.length; n++) { ... } of findBestFit, n counted
\* from 0; ok is FALSE when the loop is left by `return false`.
RECURSIVE fitWords(_, _, _, _, _, _)
fitWords(context, maxWidth, words, n, currentLine, lines) ==
  IF ~(n < Len(words))
  THEN [ok |-> TRUE, lines |-> Append(lines, trim(currentLine))]
  ELSE LET word == words[n + 1]
           testLine == currentLine \o word \o <<" ">>
           over == measureText(context, trim(testLine)) > maxWidth /\ n > 0
           pushed == Append(lines, trim(currentLine))
       IN IF over /\ measureText(context, word) > maxWidth
          THEN [ok |-> FALSE, lines |-> pushed]
          ELSE fitWords(context, maxWidth, words, n + 1,
                        IF over THEN word \o <<" ">> ELSE testLine,
                        IF over THEN pushed ELSE lines)

\* Mutant of afterWideWord: the size is not reduced before `return false`.
afterWideWordKeepsSize(currentFontSize) == currentFontSize

\* On `return false` (an over-wide word): currentFontSize -= 1
afterWideWord(currentFontSize) == currentFontSize - Px(1)

\* findBestFit over the variables it closes over (st); ret is its result.
RECURSIVE findBestFit(_, _, _, _)
findBestFit(st, words, maxWidth, maxHeight) ==
  IF ~(st.currentFontSize > Px(MinSizeFit)) THEN [ret |-> TRUE, st |-> st]
  ELSE IF st.passes >= MaxPasses
  THEN [ret |-> TRUE, st |-> [st EXCEPT !.hung = TRUE]]
  ELSE
    LET c == pinFont(st.context, Font(st.currentFontSize, "SegoeUI"))
        lineHeight == Pct(st.currentFontSize, 115)
        r == fitWords(c, maxWidth, words, 0, <<>>, <<>>)
        totalBlockHeight == Len(r.lines) * lineHeight
    IN IF ~r.ok
       THEN [ret |-> FALSE,
             st |-> [st EXCEPT !.context = c, !.lineHeight = lineHeight,
                               !.lines = r.lines, !.passes = @ + 1,
                               !.currentFontSize = afterWideWord(@)]]
       ELSE IF totalBlockHeight <= maxHeight
       THEN [ret |-> TRUE,
             st |-> [st EXCEPT !.context = c, !.lineHeight = lineHeight,
                               !.lines = r.lines, !.passes = @ + 1,
                               !.totalBlockHeight = totalBlockHeight]]
       ELSE findBestFit([st EXCEPT !.context = c, !.lineHeight = lineHeight,
                                   !.lines = r.lines, !.passes = @ + 1,
                                   !.totalBlockHeight = totalBlockHeight,
                                   !.currentFontSize = @ - Px(1)],
                        words, maxWidth, maxHeight)

\* while (!findBestFit()) {}
RECURSIVE retryFindBestFit(_, _, _, _)
retryFindBestFit(st, words, maxWidth, maxHeight) ==
  LET r == findBestFit(st, words, maxWidth, maxHeight)
  IN IF r.ret THEN r.st ELSE retryFindBestFit(r.st, words, maxWidth, maxHeight)

\* The layout and paint part of wrapText (second App), after
\* `while (!findBestFit()) {}` has left the closed-over variables in s.
paintFit(s, rawText, centerX, centerY, boxWidth, boxHeight, initialFontSize, context, maxWidth, maxHeight) ==
  LET c2 == [s.context EXCEPT !.textAlign = "center", !.textBaseline = "top",
                              !.fillStyle = "#000000"]
      startY == centerY - (s.totalBlockHeight \div 2)
      c3 == saveAndClip(c2, centerX - (boxWidth \div 2),
                        centerY - (boxHeight \div 2), boxWidth, boxHeight)
      fills == fillLines(c3, s.lines, centerX, startY, s.lineHeight)
  IN CallRecord(rawText, centerX, centerY, boxWidth, boxHeight,
                initialFontSize, context, restore(c3), maxWidth, maxHeight,
                s.currentFontSize, s.lines, s.lineHeight, s.totalBlockHeight,
                fills, s.passes, s.hung)

wrapTextFit(context, rawText, centerX, centerY, boxWidth, boxHeight, initialFontSize) ==
  IF \E words \in {split(toUpperCase(trim(rawText)))} :
        Len(words) = 0 \/ toUpperCase(trim(rawText)) = <<>>
  THEN NoOpCall(rawText, centerX, centerY, boxWidth, boxHeight, initialFontSize,
                context)
  ELSE
    LET hPadding == Pct(boxWidth, 12)
        vPadding == Pct(boxHeight, 12)
        maxWidth == boxWidth - (hPadding * 2)
        maxHeight == boxHeight - (vPadding * 2)
    IN CHOOSE call \in
         { paintFit(s, rawText, centerX, centerY, boxWidth, boxHeight,
                    initialFontSize, context, maxWidth, maxHeight) :
             s \in { retryFindBestFit([context |-> context,
                                       currentFontSize |-> initialFontSize,
                                       lines |-> <<>>, lineHeight |-> 0,
                                       totalBlockHeight |-> 0, passes |-> 0,
                                       hung |-> FALSE],
                                      words, maxWidth, maxHeight) :
                       words \in {split(toUpperCase(trim(rawText)))} } } : TRUE

\* ------------------------------------------------------------- drawMeme

Apps == {"App", "Calc", "Fit"}

wrapText(app, context, rawText, centerX, centerY, boxWidth, boxHeight, fSize) ==
  CASE app = "App" ->
         wrapTextApp(context, rawText, centerX, centerY, boxWidth, boxHeight, fSize)
    [] app = "Calc" ->
         wrapTextCalc(context, rawText, centerX, centerY, boxWidth, boxHeight, fSize)
    [] app = "Fit" ->
         wrapTextFit(context, rawText, centerX, centerY, boxWidth, boxHeight, fSize)

\* Math.floor(canvas.height * 0.065) in src/App.tsx, * 0.055 in part_000 (px)
baseFontSize(app, height) ==
  IF app = "App" THEN FloorMilli(height, 65) ELSE FloorMilli(height, 55)

\* baseFontSize * fontSizeScale, the slider value in hundredths
scaledFontSize(app, height, fontSizeScale) ==
  Pct(Px(baseFontSize(app, height)), fontSizeScale)

\* The body of drawMeme after its guards, for an image of natural size
\* img = <<width, height>> (px). Assigning canvas.width resets the context.
\* Returns the wrapText calls made (top first) and the context left behind.
drawMeme(app, img, memeText, fontSizeScale) ==
  LET width == img[1]
      height == img[2]
      ctx0 == DefaultCtx
      fSize == scaledFontSize(app, height, fontSizeScale)
      panelWidth == Px(width) \div 2
      panelHeight == Px(height) \div 2
      rightCenterX == Pct(Px(width), 75)
      topCenterY == Pct(Px(height), 25)
      bottomCenterY == Pct(Px(height), 75)
      \* if (memeText.top) wrapText(ctx, memeText.top, ...)
      top == IF memeText.top # <<>>
             THEN <<[box |-> "top"] @@
                    wrapText(app, ctx0, memeText.top, rightCenterX, topCenterY,
                             panelWidth, panelHeight, fSize)>>
             ELSE <<>>
      \* if (memeText.bottom) wrapText(ctx, memeText.bottom, ...), on the
      \* context ctx1 the calls before it (t) have left
      bottom(t, ctx1) ==
        IF memeText.bottom # <<>>
        THEN <<[box |-> "bottom"] @@
               wrapText(app, ctx1, memeText.bottom, rightCenterX,
                        bottomCenterY, panelWidth, panelHeight, fSize)>>
        ELSE <<>>
      done(calls) ==
        [image |-> img, calls |-> calls,
         ctx |-> IF calls # <<>> THEN calls[Len(calls)].ctxOut ELSE ctx0]
  IN CHOOSE drawn \in
       { done(calls) :
           calls \in { t \o bottom(t, c) :
                         t \in {top},
                         c \in {IF memeText.top # <<>> THEN x[1].ctxOut ELSE ctx0 :
                                  x \in {top}} } } : TRUE

\* ------------------------------------------------------ the App component

VARIABLES
  app,            \* which of the three App components runs
  memeText,       \* [top, bottom]
  fontSizeScale,  \* the slider value, in hundredths
  imageLoaded,
  fontsLoaded,    \* stays FALSE in "Fit", which has no such state
  imageError,
  imageRef,       \* imageRef.current: <<>> (null) or <<naturalWidth, naturalHeight>>
  loading,        \* an Image created by loadAndDrawImage has not answered yet
  fontPromise,    \* the promise checkFonts awaits: "pending", "resolved",
                  \* "rejected"; "none" in "Fit", which never asks for the font
  timer,          \* the setTimeout(..., 50) of checkFonts is pending
  canvas          \* what the last drawMeme that passed its guards did

vars == <<app, memeText, fontSizeScale, imageLoaded, fontsLoaded, imageError,
          imageRef, loading, fontPromise, timer, canvas>>

\* Natural sizes <<width, height>> (px) the template image may have.
CanvasSet == {<<100, 200>>, <<42, 200>>, <<60, 120>>}

\* <input type="range" min max step="0.01">: the slider values tried.
ScaleSet(a) == IF a = "App" THEN {20, 80, 100, 200} ELSE {30, 80, 100, 105, 150}

\* useState(0.8)
InitialScale == 80

EmptyText == [top |-> <<>>, bottom |-> <<>>]

BlankCanvas == [image |-> <<>>, calls |-> <<>>, ctx |-> DefaultCtx]

\* The values a drawMeme of the first render has closed over.
FirstRender == [text |-> EmptyText, scale |-> InitialScale]

\* The values the drawMeme that loadAndDrawImage closed over may hold when
\* img.onload calls it: those of the first render (the load on mount), or
\* those of the render in which Retry was clicked, none later than the
\* current ones.
StaleRenders == {FirstRender, [text |-> memeText, scale |-> fontSizeScale]}

\* A call of a drawMeme that closed over fonts (fontsLoaded), text and scale:
\* its guards read imageRef.current (img) when it is called.
drawMemeClosure(a, old, img, fonts, text, scale) ==
  IF img # <<>> /\ (a = "Fit" \/ fonts) THEN drawMeme(a, img, text, scale) ELSE old

\* Mutant of redraw: the second App has no re-render effect.
redrawNotInFit(a, old, img, fonts, loaded, text, scale) ==
  IF a = "Fit" THEN old
  ELSE IF img # <<>> /\ fonts THEN drawMeme(a, img, text, scale) ELSE old

\* The re-render effect: useEffect(() => { drawMeme(); }, [drawMeme]) with the
\* guards of drawMeme (App, Calc); if (imageLoaded) drawMeme() (Fit).
redraw(a, old, img, fonts, loaded, text, scale) ==
  IF a = "Fit"
  THEN IF loaded /\ img # <<>> THEN drawMeme(a, img, text, scale) ELSE old
  ELSE IF img # <<>> /\ fonts THEN drawMeme(a, img, text, scale) ELSE old

\* disabled={!imageLoaded || !fontsLoaded} of the download button;
\* disabled={!imageLoaded} in the second App of part_000
downloadDisabled ==
  IF app = "Fit" THEN ~imageLoaded ELSE ~imageLoaded \/ ~fontsLoaded

Init ==
  /\ app \in Apps
  /\ memeText = EmptyText
  /\ fontSizeScale = InitialScale
  /\ imageLoaded = FALSE
  /\ fontsLoaded = FALSE
  /\ imageError = FALSE
  /\ imageRef = <<>>
  /\ loading = TRUE
  /\ fontPromise = IF app = "Fit" THEN "none" ELSE "pending"
  /\ timer = FALSE
  /\ canvas = BlankCanvas

\* img.onload. In Fit the handler itself calls the drawMeme that
\* loadAndDrawImage closed over (stale), before the effect redraws.
ImgOnload(dims, stale) ==
  /\ loading
  /\ loading' = FALSE
  /\ imageRef' = dims
  /\ imageLoaded' = TRUE
  /\ imageError' = IF app = "App" THEN imageError ELSE FALSE
  /\ LET c1 == IF app = "Fit"
               THEN drawMemeClosure(app, canvas, dims, FALSE, stale.text,
                                    stale.scale)
               ELSE canvas
     IN canvas' = redraw(app, c1, dims, fontsLoaded, TRUE, memeText, fontSizeScale)
  /\ UNCHANGED <<app, memeText, fontSizeScale, fontsLoaded, fontPromise, timer>>

\* Mutant of ImgOnerror: the error callback also fires for an image that has
\* already answered.
ImgOnerrorAnyTime ==
  /\ loading' = FALSE
  /\ imageError' = TRUE
  /\ imageLoaded' = IF app = "App" THEN imageLoaded ELSE FALSE
  /\ canvas' = redraw(app, canvas, imageRef, fontsLoaded, imageLoaded',
                      memeText, fontSizeScale)
  /\ UNCHANGED <<app, memeText, fontSizeScale, fontsLoaded, imageRef,
                 fontPromise, timer>>

\* img.onerror
ImgOnerror ==
  /\ loading
  /\ loading' = FALSE
  /\ imageError' = TRUE
  /\ imageLoaded' = IF app = "App" THEN imageLoaded ELSE FALSE
  /\ canvas' = redraw(app, canvas, imageRef, fontsLoaded, imageLoaded',
                      memeText, fontSizeScale)
  /\ UNCHANGED <<app, memeText, fontSizeScale, fontsLoaded, imageRef,
                 fontPromise, timer>>

\* handleRetryLoad -> loadAndDrawImage(DEFAULT_TEMPLATE)
handleRetryLoad ==
  /\ app # "App"
  /\ imageError
  /\ imageError' = FALSE
  /\ imageLoaded' = FALSE
  /\ loading' = TRUE
  /\ canvas' = redraw(app, canvas, imageRef, fontsLoaded, FALSE, memeText,
                      fontSizeScale)
  /\ UNCHANGED <<app, memeText, fontSizeScale, fontsLoaded, imageRef,
                 fontPromise, timer>>

\* checkFonts: the awaited promise settles; setFontsLoaded(true) whether it
\* resolves or rejects. src/App.tsx also starts the 50 ms timer when it resolves.
checkFonts(outcome) ==
  /\ app # "Fit"
  /\ fontPromise = "pending"
  /\ fontPromise' = outcome
  /\ fontsLoaded' = TRUE
  /\ timer' = (app = "App" /\ outcome = "resolved")
  /\ canvas' = redraw(app, canvas, imageRef, TRUE, imageLoaded, memeText,
                      fontSizeScale)
  /\ UNCHANGED <<app, memeText, fontSizeScale, imageLoaded, imageError, imageRef,
                 loading>>

\* handleFontsChange, the 'loadingdone' listener of src/App.tsx:
\* setFontsLoaded(true); drawMeme() of the first render; then the effect.
handleFontsChange ==
  /\ app = "App"
  /\ fontsLoaded' = TRUE
  /\ LET c1 == drawMemeClosure(app, canvas, imageRef, FALSE, FirstRender.text,
                               FirstRender.scale)
     IN canvas' = redraw(app, c1, imageRef, TRUE, imageLoaded, memeText,
                         fontSizeScale)
  /\ UNCHANGED <<app, memeText, fontSizeScale, imageLoaded, imageError, imageRef,
                 loading, fontPromise, timer>>

\* setTimeout(() => { if (isMounted) drawMeme(); }, 50) of src/App.tsx fires:
\* the drawMeme of the first render.
redrawTimer ==
  /\ timer
  /\ timer' = FALSE
  /\ canvas' = drawMemeClosure(app, canvas, imageRef, FALSE, FirstRender.text,
                               FirstRender.scale)
  /\ UNCHANGED <<app, memeText, fontSizeScale, imageLoaded, fontsLoaded,
                 imageError, imageRef, loading, fontPromise>>

\* onChange of the top caption: one more character typed
SetTopText(c, limit) ==
  /\ Len(memeText.top) + Len(memeText.bottom) < limit
  /\ memeText' = [memeText EXCEPT !.top = Append(@, c)]
  /\ canvas' = redraw(app, canvas, imageRef, fontsLoaded, imageLoaded, memeText',
                      fontSizeScale)
  /\ UNCHANGED <<app, fontSizeScale, imageLoaded, fontsLoaded, imageError,
                 imageRef, loading, fontPromise, timer>>

\* onChange of the bottom caption
SetBottomText(c, limit) ==
  /\ Len(memeText.top) + Len(memeText.bottom) < limit
  /\ memeText' = [memeText EXCEPT !.bottom = Append(@, c)]
  /\ canvas' = redraw(app, canvas, imageRef, fontsLoaded, imageLoaded, memeText',
                      fontSizeScale)
  /\ UNCHANGED <<app, fontSizeScale, imageLoaded, fontsLoaded, imageError,
                 imageRef, loading, fontPromise, timer>>

\* onChange of the slider
SetFontSizeScale(s) ==
  /\ s # fontSizeScale
  /\ fontSizeScale' = s
  /\ canvas' = redraw(app, canvas, imageRef, fontsLoaded, imageLoaded, memeText, s)
  /\ UNCHANGED <<app, memeText, imageLoaded, fontsLoaded, imageError, imageRef,
                 loading, fontPromise, timer>>

\* handleReset: setMemeText({ top: '', bottom: '' }); setFontSizeScale(0.8)
handleReset ==
  /\ memeText' = EmptyText
  /\ fontSizeScale' = InitialScale
  /\ canvas' = redraw(app, canvas, imageRef, fontsLoaded, imageLoaded, EmptyText,
                      InitialScale)
  /\ UNCHANGED <<app, imageLoaded, fontsLoaded, imageError, imageRef, loading,
                 fontPromise, timer>>

Next ==
  \/ \E dims \in CanvasSet, stale \in StaleRenders : ImgOnload(dims, stale)
  \/ ImgOnerror
  \/ handleRetryLoad
  \/ \E outcome \in {"resolved", "rejected"} : checkFonts(outcome)
  \/ handleFontsChange
  \/ redrawTimer
  \/ \E c \in Chars : SetTopText(c, MaxLen)
  \/ \E c \in Chars : SetBottomText(c, MaxLen)
  \/ \E s \in ScaleSet(app) : SetFontSizeScale(s)
  \/ handleReset

Spec == Init /\ [][Next]_vars

\* The same component with only the top caption edited, longer captions, and
\* fonts that load: the promise resolves, no 'loadingdone' event and no timer.
NextTop ==
  \/ \E dims \in CanvasSet, stale \in StaleRenders : ImgOnload(dims, stale)
  \/ ImgOnerror
  \/ handleRetryLoad
  \/ checkFonts("resolved")
  \/ \E c \in Chars : SetTopText(c, MaxTopLen)
  \/ \E s \in ScaleSet(app) : SetFontSizeScale(s)
  \/ handleReset

SpecTop == Init /\ [][NextTop]_vars

\* ================================================================ claims

\* The wrapText calls of the drawMeme whose result is on the canvas.
Calls == canvas.calls

\* rawText.trim().toUpperCase()
Normalized(rawText) == toUpperCase(trim(rawText))

\* The width measureText reports for s under font f.
WidthAt(f, s) == measureText([font |-> f], s)

\* A call that got past the empty-text return.
Ran(c) == Normalized(c.rawText) # <<>>

\* A call that painted at least one line.
Painted(c) == c.fills # <<>>

\* The font-size floor of the search of variant a.
MinSize(a) == IF a = "Calc" THEN MinSizeCalc ELSE MinSizeFit

\* C1. src/App.tsx: every string pushed to lines measures at most
\* targetMaxWidth under the font of the call, also when a single character is
\* wider than targetMaxWidth.
C1_PushedLinesFit ==
  app = "App" =>
    \A i \in DOMAIN Calls :
      \A k \in DOMAIN Calls[i].lines :
        WidthAt(Font(Calls[i].fSize, "ArialBlack"), Calls[i].lines[k])
          <= Calls[i].maxWidth

\* C2. Second App of part_000: every line painted with fillText measures at
\* most maxWidth under the font pinned on the context when it is painted.
C2_FitPaintedLinesFit ==
  app = "Fit" =>
    \A i \in DOMAIN Calls :
      \A k \in DOMAIN Calls[i].fills :
        WidthAt(Calls[i].fills[k].font, Calls[i].fills[k].text) <= Calls[i].maxWidth

\* C3. First App of part_000: whatever wrapText paints is a success layout:
\* every painted line measures at most maxWidth under the font it is painted
\* with, that font is the chosen size, totalBlockHeight is
\* lines.length * 1.15 * the chosen size and is at most maxHeight, and
\* maxWidth and maxHeight are the box less 15% padding on each side.
C3_CalcPaintsSuccessLayout ==
  app = "Calc" =>
    \A i \in DOMAIN Calls :
      Painted(Calls[i]) =>
        /\ \A k \in DOMAIN Calls[i].fills :
             /\ Calls[i].fills[k].font.size = Calls[i].fontSize
             /\ Calls[i].fills[k].text = Calls[i].lines[k]
             /\ WidthAt(Calls[i].fills[k].font, Calls[i].fills[k].text)
                  <= Calls[i].maxWidth
        /\ Len(Calls[i].fills) = Len(Calls[i].lines)
        /\ Calls[i].totalHeight = Len(Calls[i].lines) * Pct(Calls[i].fontSize, 115)
        /\ Calls[i].totalHeight <= Calls[i].maxHeight
        /\ Calls[i].maxWidth = Pct(Calls[i].boxWidth, 70)
        /\ Calls[i].maxHeight = Pct(Calls[i].boxHeight, 70)

\* C3 witness: the first App has painted several lines after shrinking.
C3_Witness ==
  /\ app = "Calc"
  /\ \E i \in DOMAIN Calls :
       /\ Painted(Calls[i])
       /\ Len(Calls[i].lines) >= 2
       /\ Calls[i].passes >= 2

\* C4. Second App of part_000: whenever wrapText paints, the painted lines
\* joined with single blanks are the normalized text with its whitespace runs
\* collapsed (nothing is truncated).
C4_FitNeverTruncates ==
  app = "Fit" =>
    \A i \in DOMAIN Calls :
      Painted(Calls[i]) =>
        join([k \in DOMAIN Calls[i].fills |-> Calls[i].fills[k].text])
          = join(split(Normalized(Calls[i].rawText)))

\* C5. First App of part_000: a text with a non-whitespace character always
\* gets at least one painted line.
C5_CalcAlwaysPaints ==
  app = "Calc" =>
    \A i \in DOMAIN Calls : Ran(Calls[i]) => Painted(Calls[i])

\* C6. src/App.tsx: the painted block is never taller than the box:
\* lines.length * lineHeight <= boxHeight.
C6_AppBlockWithinBox ==
  app = "App" =>
    \A i \in DOMAIN Calls :
      /\ Calls[i].totalHeight = Len(Calls[i].lines) * Calls[i].lineHeight
      /\ Calls[i].totalHeight <= Calls[i].boxHeight

\* C7 as stated. Both Apps of part_000: the font-size search ends, after at
\* most (initialFontSize - minSize) + 1 line-breaking passes.
C7_PassesWithinStatedBound ==
  app \in {"Calc", "Fit"} =>
    \A i \in DOMAIN Calls :
      Ran(Calls[i]) =>
        /\ ~Calls[i].hung
        /\ Px(Calls[i].passes) <= (Calls[i].fSize - Px(MinSize(app))) + Px(1)

\* C7, amended. Both Apps of part_000: the font-size search ends, after at
\* most max(0, (initialFontSize - minSize) + 1) line-breaking passes (none
\* when initialFontSize is not above the floor).
C7_PassesWithinBound ==
  app \in {"Calc", "Fit"} =>
    \A i \in DOMAIN Calls :
      Ran(Calls[i]) =>
        /\ ~Calls[i].hung
        /\ \/ Px(Calls[i].passes) <= (Calls[i].fSize - Px(MinSize(app))) + Px(1)
           \/ Calls[i].passes = 0 /\ Calls[i].fSize <= Px(MinSize(app))

\* C7 witness: the second App has re-entered findBestFit after an over-wide
\* word (a word after the first wider than maxWidth at the initial size) and
\* has ended the search after several passes.
C7_Witness ==
  /\ app = "Fit"
  /\ \E i \in DOMAIN Calls :
       /\ Calls[i].passes >= 3
       /\ ~Calls[i].hung
       /\ \E k \in 2..Len(split(Normalized(Calls[i].rawText))) :
            WidthAt(Font(Calls[i].fSize, "SegoeUI"),
                    split(Normalized(Calls[i].rawText))[k]) > Calls[i].maxWidth

\* C8. Both Apps of part_000: if the whole normalized text measures at most
\* maxWidth at initialFontSize and one line height (1.15 * initialFontSize) is
\* at most maxHeight, exactly one line is painted, at initialFontSize.
C8_OneLineAtInitialSize ==
  app \in {"Calc", "Fit"} =>
    \A i \in DOMAIN Calls :
      ( /\ Ran(Calls[i])
        /\ WidthAt(Font(Calls[i].fSize, "SegoeUI"),
                   join(split(Normalized(Calls[i].rawText)))) <= Calls[i].maxWidth
        /\ Pct(Calls[i].fSize, 115) <= Calls[i].maxHeight )
      => /\ Len(Calls[i].fills) = 1
         /\ Calls[i].fills[1].font.size = Calls[i].fSize

\* The same caption in the same box, painted before and after a step.
SameCaption(c, d) ==
  /\ c.box = d.box
  /\ c.rawText = d.rawText
  /\ c.centerX = d.centerX
  /\ c.centerY = d.centerY
  /\ c.boxWidth = d.boxWidth
  /\ c.boxHeight = d.boxHeight

\* A step from one painted canvas to the next keeps the painted size of a
\* caption in step with its initial size.
MonotoneStep ==
  app \in {"Calc", "Fit"} =>
    \A i \in DOMAIN Calls : \A j \in DOMAIN Calls' :
      ( /\ SameCaption(Calls[i], Calls'[j])
        /\ Painted(Calls[i])
        /\ Painted(Calls'[j])
        /\ Calls[i].fSize <= Calls'[j].fSize )
      => Calls[i].fills[1].font.size <= Calls'[j].fills[1].font.size

\* C9. Both Apps of part_000: with text and box fixed, the font size the
\* caption is painted at does not decrease when fontSizeScale (and with it
\* initialFontSize = baseFontSize * scale) grows.
C9_PaintedSizeMonotoneInScale == [][MonotoneStep]_vars

\* What a wrapText call is given, apart from the context.
Args(c) ==
  <<c.rawText, c.centerX, c.centerY, c.boxWidth, c.boxHeight, c.fSize>>

\* What a wrapText call produces.
Outcome(c) ==
  <<c.fontSize, c.lines, c.lineHeight, c.totalHeight, c.fills>>

\* A call of the canvas before a step and a call of the canvas after it that
\* were given the same arguments have the same outcome.
RepeatableStep ==
  \A i \in DOMAIN Calls : \A j \in DOMAIN Calls' :
    Args(Calls[i]) = Args(Calls'[j]) => Outcome(Calls[i]) = Outcome(Calls'[j])

\* C10. All three variants: two wrapText calls with identical arguments produce
\* the identical result (chosen size, lines, line height, block height, paint
\* calls), whatever state earlier calls have left on the context.
C10_SameArgsSameResult == [][RepeatableStep]_vars

\* C10 witness: a caption was measured and painted by a call that found the
\* context as an earlier call (the top caption's) had left it.
C10_Witness ==
  \E i \in DOMAIN Calls :
    /\ Painted(Calls[i])
    /\ Calls[i].ctxIn # DefaultCtx
    /\ Calls[i].ctxIn.font.size # Calls[i].fills[1].font.size

\* Twice the y of the top edge of the line box of a painted line: with
\* textBaseline 'middle' y is the middle of the line box, with 'top' its top.
TopEdge2(fill, lineHeight) ==
  IF fill.textBaseline = "middle" THEN 2 * fill.y - lineHeight ELSE 2 * fill.y

\* C11. src/App.tsx (baseline 'middle') and the first App of part_000
\* (baseline 'top'): every painted line is center-aligned at x = centerX, line
\* i is painted lineHeight below line i - 1, and the middle between the top
\* edge of the first line and the bottom edge of the last line is centerY.
C11_BlockCentred ==
  app \in {"App", "Calc"} =>
    \A i \in DOMAIN Calls :
      Painted(Calls[i]) =>
        LET c == Calls[i]
            n == Len(c.fills)
        IN /\ \A k \in 1..n :
                /\ c.fills[k].x = c.centerX
                /\ c.fills[k].textAlign = "center"
                /\ c.fills[k].textBaseline = IF app = "App" THEN "middle" ELSE "top"
                /\ c.fills[k].y = c.fills[1].y + (k - 1) * c.lineHeight
           /\ TopEdge2(c.fills[1], c.lineHeight)
                + (TopEdge2(c.fills[n], c.lineHeight) + 2 * c.lineHeight)
              = 4 * c.centerY

\* C11 witness: a block of at least three lines has been painted by
\* src/App.tsx or by the first App of part_000.
C11_Witness ==
  /\ app \in {"App", "Calc"}
  /\ \E i \in DOMAIN Calls : Len(Calls[i].fills) >= 3

\* C12. Second App of part_000: whenever lines are painted,
\* totalBlockHeight = lines.length * lineHeight and lineHeight is 1.15 times
\* the font size pinned on the context, so the painted block is centred on
\* centerY; on every exit of `while (!findBestFit()) {}`.
C12_FitResultInvariantAtPaint ==
  app = "Fit" =>
    \A i \in DOMAIN Calls :
      Painted(Calls[i]) =>
        LET c == Calls[i]
            n == Len(c.fills)
        IN /\ c.totalHeight = Len(c.lines) * c.lineHeight
           /\ c.lineHeight = Pct(c.fills[1].font.size, 115)
           /\ TopEdge2(c.fills[1], c.lineHeight)
                + (TopEdge2(c.fills[n], c.lineHeight) + 2 * c.lineHeight)
              = 4 * c.centerY

\* The call made for the bottom caption when the top caption is left out.
BottomAlone ==
  drawMeme(app, canvas.image, [top |-> <<>>, bottom |-> memeText.bottom],
           fontSizeScale).calls

\* C13. All three variants: a caption that consists only of whitespace gives
\* no lines, no line-breaking pass and no fillText call, and leaves font,
\* alignment, baseline, fill and clip state of the context as it found them;
\* the other caption is rendered as it is without the whitespace caption.
C13_BlankCaptionIsNoOp ==
  /\ \A i \in DOMAIN Calls :
       ~Ran(Calls[i]) =>
         /\ Calls[i].lines = <<>>
         /\ Calls[i].fills = <<>>
         /\ Calls[i].passes = 0
         /\ Calls[i].ctxOut = Calls[i].ctxIn
  /\ ( /\ Len(Calls) = 2
       /\ ~Ran(Calls[1])
       /\ canvas = drawMeme(app, canvas.image, memeText, fontSizeScale) )
     => /\ Outcome(Calls[2]) = Outcome(BottomAlone[1])
        /\ Calls[2].ctxOut = BottomAlone[1].ctxOut

\* C13 witness: the top caption is only blanks and the bottom caption has been
\* painted after it.
C13_Witness ==
  /\ Len(Calls) = 2
  /\ Calls[1].rawText # <<>>
  /\ ~Ran(Calls[1])
  /\ Painted(Calls[2])
  /\ canvas = drawMeme(app, canvas.image, memeText, fontSizeScale)

\* A word: not empty, no whitespace in it.
IsWord(w) == w # <<>> /\ \A k \in DOMAIN w : ~IsSpace(w[k])

\* A line: not empty, no whitespace at either end, no two blanks in a row.
IsCleanLine(l) ==
  /\ l # <<>>
  /\ ~IsSpace(l[1])
  /\ ~IsSpace(l[Len(l)])
  /\ \A k \in 1..(Len(l) - 1) : ~(IsSpace(l[k]) /\ IsSpace(l[k + 1]))

\* C14. All three variants: every word of trim + split(/\s+/) is non-empty and
\* free of whitespace, and every painted line is non-empty, neither begins nor
\* ends with a blank and separates its words by exactly one blank.
C14_WordsAndLinesClean ==
  \A i \in DOMAIN Calls :
    Ran(Calls[i]) =>
      /\ \A k \in DOMAIN split(Normalized(Calls[i].rawText)) :
           IsWord(split(Normalized(Calls[i].rawText))[k])
      /\ \A k \in DOMAIN Calls[i].fills : IsCleanLine(Calls[i].fills[k].text)

\* C14 witness: a caption with blanks before, after and doubled between its
\* words has been painted.
C14_Witness ==
  \E i \in DOMAIN Calls :
    /\ Painted(Calls[i])
    /\ Len(Calls[i].rawText) >= 5
    /\ IsSpace(Calls[i].rawText[1])
    /\ IsSpace(Calls[i].rawText[Len(Calls[i].rawText)])
    /\ \E k \in 2..(Len(Calls[i].rawText) - 2) :
         /\ IsSpace(Calls[i].rawText[k]) /\ IsSpace(Calls[i].rawText[k + 1])
         /\ \E j \in 1..(k - 1) : ~IsSpace(Calls[i].rawText[j])
         /\ \E j \in (k + 2)..Len(Calls[i].rawText) : ~IsSpace(Calls[i].rawText[j])

\* The box of a caption inset by d on every side, as rect(x, y, w, h).
BoxRect(c, d) ==
  <<c.centerX - (c.boxWidth \div 2) + d, c.centerY - (c.boxHeight \div 2) + d,
    c.boxWidth - 2 * d, c.boxHeight - 2 * d>>

\* C16. All three variants: every fillText of a caption is made under a
\* clipping region that is exactly the caption's box inset by at most 5 px per
\* side (no other rectangle cuts it), and save/restore are balanced: the call
\* leaves clip and the stack of saved states as it found them.
C16_ClippedToOwnBox ==
  \A i \in DOMAIN Calls :
    /\ \A k \in DOMAIN Calls[i].fills :
         \E d \in {0, Px(5)} : Calls[i].fills[k].clip = <<BoxRect(Calls[i], d)>>
    /\ Calls[i].ctxOut.clip = Calls[i].ctxIn.clip
    /\ Calls[i].ctxOut.saved = Calls[i].ctxIn.saved
    /\ Calls[i].ctxOut.clip = <<>>

\* C16 witness: both captions have been painted, the bottom one after the top
\* one's clip was set and removed.
C16_Witness ==
  /\ Len(Calls) = 2
  /\ Painted(Calls[1])
  /\ Painted(Calls[2])
  /\ Calls[1].fills[1].clip # Calls[2].fills[1].clip

\* The lines the line-breaking pass of variant a produces for the words of
\* rawText when the font f is pinned on the context.
PassLines(a, f, rawText, maxWidth) ==
  CASE a = "App" ->
         CHOOSE ls \in
           { IF w.currentLine # <<>> THEN Append(w.lines, w.currentLine) ELSE w.lines :
               w \in { wrapWords(pinFont(DefaultCtx, f), maxWidth,
                                 split(Normalized(rawText)), <<>>, <<>>) } } : TRUE
    [] a = "Calc" ->
         calcWords(pinFont(DefaultCtx, f), maxWidth, split(Normalized(rawText)),
                   <<>>, <<>>).lines
    [] a = "Fit" ->
         fitWords(pinFont(DefaultCtx, f), maxWidth, split(Normalized(rawText)), 0,
                  <<>>, <<>>).lines

\* C17. All three variants: the painted lines are the lines a line-breaking
\* pass measures under the very font that is pinned on the context at
\* fillText, every line is painted under that one font, and lineHeight is 1.15
\* times its size; the call's own font pin precedes every measurement, so the
\* font found on the context plays no part.
C17_PaintedAsMeasured ==
  \A i \in DOMAIN Calls :
    Painted(Calls[i]) =>
      /\ \A k \in DOMAIN Calls[i].fills :
           /\ Calls[i].fills[k].font = Calls[i].fills[1].font
           /\ Calls[i].fills[k].text = Calls[i].lines[k]
      /\ Calls[i].fills[1].font.stack # "default"
      /\ Calls[i].lines
           = PassLines(app, Calls[i].fills[1].font, Calls[i].rawText,
                       Calls[i].maxWidth)
      /\ Calls[i].lineHeight = Pct(Calls[i].fills[1].font.size, 115)

\* C17 witness: a caption was painted, at a size below its initial size, by a
\* call that found another font on the context than the one it painted with.
C17_Witness ==
  \E i \in DOMAIN Calls :
    /\ Painted(Calls[i])
    /\ Calls[i].ctxIn.font.stack # "default"
    /\ Calls[i].ctxIn.font # Calls[i].fills[1].font
    /\ Calls[i].fills[1].font.size < Calls[i].fSize

\* The font sizes the shrink loop of the first App handed to calculateLines.
TriedSizes(c) == { c.fSize - Px(j) : j \in 0..(c.passes - 1) }

\* calculateLines(size) for the words of call c.
ResultAt(c, size) ==
  calculateLines(DefaultCtx, split(Normalized(c.rawText)), c.maxWidth, size)

\* The width of s at font size `size` in the first App.
WidthCalc(size, s) == WidthAt(Font(size, "SegoeUI"), s)

\* C18. First App of part_000: calculateLines is a greedy maximal line
\* breaker. A non-null result holds the words in input order, one blank
\* between words of a line, every line at most maxWidth wide, and each line
\* followed by a blank and the first word of the next line is wider than
\* maxWidth; the result is null exactly when some word alone is wider than
\* maxWidth.
C18_GreedyMaximalBreaker ==
  app = "Calc" =>
    \A i \in DOMAIN Calls :
      \A size \in TriedSizes(Calls[i]) :
        \A r \in {ResultAt(Calls[i], size)} :
          /\ r.ok =>
               /\ join(r.lines) = join(split(Normalized(Calls[i].rawText)))
               /\ \A k \in DOMAIN r.lines :
                    /\ IsCleanLine(r.lines[k])
                    /\ WidthCalc(size, r.lines[k]) <= Calls[i].maxWidth
               /\ \A k \in 1..(Len(r.lines) - 1) :
                    WidthCalc(size, JoinSp(r.lines[k], split(r.lines[k + 1])[1]))
                      > Calls[i].maxWidth
          /\ ~r.ok <=>
               \E k \in DOMAIN split(Normalized(Calls[i].rawText)) :
                 WidthCalc(size, split(Normalized(Calls[i].rawText))[k])
                   > Calls[i].maxWidth

\* C18 witness: the first App painted at least two lines, one of them holding
\* two words, after calculateLines had returned null at a larger size.
C18_Witness ==
  /\ app = "Calc"
  /\ \E i \in DOMAIN Calls :
       /\ Len(Calls[i].fills) >= 2
       /\ \E k \in DOMAIN Calls[i].lines : Len(split(Calls[i].lines[k])) >= 2
       /\ \E size \in TriedSizes(Calls[i]) : ~ResultAt(Calls[i], size).ok

\* s without its blanks.
NoSpaces(s) == SelectSeq(s, LAMBDA ch : ~IsSpace(ch))

\* The number of non-blank characters in the first k lines.
CharsUpTo(lines, k) == Len(NoSpaces(concat(SubSeq(lines, 1, k))))

\* The numbers of characters at which a word of words ends.
WordEnds(words) == { Len(concat(SubSeq(words, 1, k))) : k \in 1..Len(words) }

\* Line k ends inside a word: the splitter closed it.
ClosedBySplitter(c, k) ==
  CharsUpTo(c.lines, k) \notin WordEnds(split(Normalized(c.rawText)))

C15_NoTextBeforeFontConfirmed ==
  \A i \in DOMAIN Calls :
    (Calls[i].passes > 0 \/ Painted(Calls[i])) => fontPromise = "resolved"

\* C20. Every variant: once the image and, where drawMeme is gated on them,
\* the fonts are loaded, the canvas after any edit, slider change, reset or
\* reload (and the effect it triggers) is the fresh render of the current
\* memeText and fontSizeScale on the template image; no render of a stale
\* drawMeme (img.onload, the 50 ms timer, the 'loadingdone' listener) is the
\* last to paint.
C20_CanvasIsFreshRender ==
  (imageLoaded /\ imageRef # <<>> /\ (app = "Fit" \/ fontsLoaded)) =>
    canvas = drawMeme(app, imageRef, memeText, fontSizeScale)

\* C20 witness: both captions are painted at a slider value other than the
\* initial one, after the img.onload of the second App, or after the 50 ms
\* timer of src/App.tsx has fired.
C20_Witness ==
  /\ imageLoaded
  /\ app = "Fit" \/ (app = "App" /\ fontPromise = "resolved" /\ ~timer)
  /\ fontSizeScale # InitialScale
  /\ Len(Calls) = 2
  /\ Painted(Calls[1])
  /\ Painted(Calls[2])

\* C21. All three variants: within one drawMeme the bottom caption's chosen
\* size, lines, line height, block height and fillText calls are those of the
\* same wrapText call made on a freshly reset context, whatever the top
\* caption's call has left on the shared context.
C21_BottomIndependentOfTop ==
  \A i \in DOMAIN Calls :
    Calls[i].box = "bottom" =>
      Outcome(Calls[i])
        = Outcome(wrapText(app, DefaultCtx, Calls[i].rawText, Calls[i].centerX,
                           Calls[i].centerY, Calls[i].boxWidth,
                           Calls[i].boxHeight, Calls[i].fSize))

\* C21 witness: the bottom caption was painted on a context whose font,
\* alignment, baseline and fill the top caption's call had changed.
C21_Witness ==
  \E i \in DOMAIN Calls :
    /\ Calls[i].box = "bottom"
    /\ Painted(Calls[i])
    /\ Calls[i].ctxIn.font # DefaultCtx.font
    /\ Calls[i].ctxIn.textAlign # DefaultCtx.textAlign
    /\ Calls[i].ctxIn.textBaseline # DefaultCtx.textBaseline
    /\ Calls[i].ctxIn.fillStyle # DefaultCtx.fillStyle
    /\ Calls[1].rawText # Calls[i].rawText

\* C22. Every variant: imageLoaded and imageError are never both true, and the
\* download button is enabled only when imageLoaded is true and, where the
\* variant tracks it, fontsLoaded is true.
C22_LoadFlagsExclusive ==
  /\ ~(imageLoaded /\ imageError)
  /\ ~downloadDisabled => (imageLoaded /\ (app # "Fit" => fontsLoaded))
  /\ imageError => downloadDisabled

\* C22 witness: a variant that tracks fontsLoaded has the image and the fonts
\* loaded, no error shown and the download button enabled.
C22_Witness ==
  /\ app # "Fit"
  /\ ~downloadDisabled
  /\ ~imageError
  /\ ~loading

====
